---- MODULE Spec2Model ----
(***************************************************************************)
(* State-machine model of the script context registry of                   *)
(* src/src/script/context.c: the weak-reference table, the root scope, the  *)
(* engine map, the deferred-release pool and the invocation bridge.        *)
(*                                                                         *)
(* Every C function is an operator over a context record c (the fields of  *)
(* struct mScriptContext plus the heap of Values it touches) returning the  *)
(* context after the call; the actions apply one public operation each.    *)
(***************************************************************************)
EXTENDS Integers, Sequences, FiniteSets, TLC

(***************************************************************************)
(* Bounds of the model.                                                    *)
(***************************************************************************)
\* Handles are uint32_t in the code and wrap at 2^32; the model's handles are
\* 0 .. NumHandles - 1 and wrap at NumHandles.
NumHandles == 3
\* Cap of a Value's reference count (the host stops taking references there).
MaxRefs == 3
\* Cap on the length of the deferred-release pool.
MaxPool == 2
\* Number of weak-reference Values the host holds at a time.
MaxHostWeak == 1
\* Number of Engine Contexts the create factories yield in one run.
MaxContexts == 2

(***************************************************************************)
(* Program constants.                                                      *)
(***************************************************************************)
NULL == 0
mSCRIPT_VALUE_UNREF == -1

mSCRIPT_TYPE_SINT == "SINT"
mSCRIPT_TYPE_UINT == "UINT"
mSCRIPT_TYPE_FLOAT == "FLOAT"
mSCRIPT_TYPE_TABLE == "TABLE"
mSCRIPT_TYPE_STRING == "STRING"
mSCRIPT_TYPE_FUNCTION == "FUNCTION"
mSCRIPT_TYPE_MS_WEAKREF == "WEAKREF"

Handles == 0 .. (NumHandles - 1)

\* The host's Values: a reference-counted one (1), a scalar (2) and a Value
\* in the sentinel state that is not reference-counted (3).
CountedVals == {1}
ScalarVals == {2}
SentinelVals == {3}
Vals == CountedVals \cup ScalarVals \cup SentinelVals
Keys == {"x", "y"}
\* A weak-reference-typed Value is written once, when it is allocated, and
\* read-only from then on: it is modelled by its content, the handle in
\* value.u32, as the number 100 + handle (host Values are 1, 2, 3).
WeakrefValue(h) == 100 + h
U32(w) == w - 100
WIds == {WeakrefValue(h) : h \in Handles}
\* Engine Contexts, in the order the create factories yield them.
CtxIds == 21 .. (20 + MaxContexts)
EngineNames == {"lua", "js"}

\* value->type->base of a host Value.
TypeBase(v) ==
    IF v = 1 THEN mSCRIPT_TYPE_TABLE
    ELSE IF v = 2 THEN mSCRIPT_TYPE_SINT
    ELSE mSCRIPT_TYPE_STRING

IsScalar(v) ==
    TypeBase(v) \in {mSCRIPT_TYPE_SINT, mSCRIPT_TYPE_UINT, mSCRIPT_TYPE_FLOAT}

Min(a, b) == IF a < b THEN a ELSE b

VARIABLES
    refs,         \* [Vals -> Int]: value->refs of each host Value
    dtor,         \* [Vals -> Nat]: how often the Value's destructor ran
    hostRefs,     \* [Vals -> Nat]: references the host owns (pooled ones included)
    weakrefs,     \* [Handles -> Vals \cup {NULL}]: context->weakrefs
    nextWeakref,  \* context->nextWeakref
    hostWeak,     \* the weak-reference Values the host holds, and their story
    rootScope,    \* [Keys -> WIds \cup {NULL}]: context->rootScope
    boundVal,     \* [Keys -> Vals \cup {NULL}]: the Value last bound to each key
    engines,      \* [EngineNames -> CtxIds \cup {NULL}]: context->engines
    ectx,         \* [CtxIds -> record]: life of each Engine Context
    refPool,      \* Seq(Vals): context->refPool (the wrapped pointers)
    flags,        \* record of what went wrong so far (use after free, overwrite)
    pc,           \* "run", "hung" (a loop that never ends), "crashed", "deinit"
    last          \* the last operation: its arguments, result and callbacks

vars == <<refs, dtor, hostRefs, weakrefs, nextWeakref, hostWeak, rootScope,
          boundVal, engines, ectx, refPool, flags, pc, last>>

\* The context record the operators work on; log collects the calls the
\* operation makes into the engines, in order.
Ctx ==
    [refs |-> refs, dtor |-> dtor, hostRefs |-> hostRefs, weakrefs |-> weakrefs,
     nextWeakref |-> nextWeakref, hostWeak |-> hostWeak,
     rootScope |-> rootScope, boundVal |-> boundVal, engines |-> engines, ectx |-> ectx,
     refPool |-> refPool, flags |-> flags, pc |-> pc, log |-> <<>>]

Commit(c) ==
    /\ refs' = c.refs
    /\ dtor' = c.dtor
    /\ hostRefs' = c.hostRefs
    /\ weakrefs' = c.weakrefs
    /\ nextWeakref' = c.nextWeakref
    /\ hostWeak' = c.hostWeak
    /\ rootScope' = c.rootScope
    /\ boundVal' = c.boundVal
    /\ engines' = c.engines
    /\ ectx' = c.ectx
    /\ refPool' = c.refPool
    /\ flags' = c.flags
    /\ pc' = c.pc

(***************************************************************************)
(* Values and reference counting (mScriptValueRef, mScriptValueDeref,      *)
(* mScriptValueAlloc: declared in mgba/script/types.h).                    *)
(***************************************************************************)
\* ref(value): no-op for a scalar or sentinel Value, else one more reference.
\* Touching a Value whose destructor already ran is a use after free.
mScriptValueRef(c, v) ==
    IF c.refs[v] = mSCRIPT_VALUE_UNREF \/ IsScalar(v) THEN c
    ELSE IF c.dtor[v] > 0
    THEN [c EXCEPT !.flags.uaf = TRUE, !.refs[v] = Min(@ + 1, MaxRefs)]
    ELSE [c EXCEPT !.refs[v] = @ + 1]

\* deref(value): no-op for a scalar or sentinel Value, else one reference less,
\* and the destructor at zero.
mScriptValueDeref(c, v) ==
    IF c.refs[v] = mSCRIPT_VALUE_UNREF \/ IsScalar(v) THEN c
    ELSE IF c.dtor[v] > 0
    THEN [c EXCEPT !.flags.uaf = TRUE,
                   !.refs[v] = IF @ > 1 THEN @ - 1 ELSE 0,
                   !.dtor[v] = IF c.refs[v] > 1 THEN @ ELSE 2]
    ELSE IF c.refs[v] > 1 THEN [c EXCEPT !.refs[v] = @ - 1]
    ELSE [c EXCEPT !.refs[v] = 0, !.dtor[v] = 1]

(***************************************************************************)
(* The handle table (TableInsert, TableRemove, TableLookup of util/table,  *)
(* with mScriptValueDeref as the table's deinitializer).                   *)
(***************************************************************************)
TableLookup(c, h) == c.weakrefs[h]

\* The story of the weak-reference Values the host holds: a record
\* [u32, val, cleared, reused] each, telling the handle, the Value it was made
\* from, whether the handle was cleared since and whether it was given out
\* again after that.
MarkCleared(c, h) ==
    {IF w.u32 = h THEN [w EXCEPT !.cleared = TRUE] ELSE w : w \in c.hostWeak}
MarkReused(c, h) ==
    {IF w.u32 = h /\ w.cleared THEN [w EXCEPT !.reused = TRUE] ELSE w :
        w \in c.hostWeak}

\* Insert at h; an entry already there is released and overwritten.
TableInsert(c, h, v) ==
    LET old == c.weakrefs[h]
        c1 == IF old = NULL THEN c
              ELSE IF old = v THEN [c EXCEPT !.flags.clobber = TRUE]
              ELSE [mScriptValueDeref(c, old) EXCEPT !.flags.clobber = TRUE]
    IN [c1 EXCEPT !.weakrefs[h] = v, !.hostWeak = MarkReused(c1, h)]

\* Remove h and release the table's reference; nothing for an absent handle.
TableRemove(c, h) ==
    LET old == c.weakrefs[h]
    IN IF old = NULL THEN c
       ELSE [mScriptValueDeref(c, old) EXCEPT
                !.weakrefs[h] = NULL,
                !.hostWeak = MarkCleared(c, h)]

(***************************************************************************)
(* The weak-reference table of the context.                                *)
(***************************************************************************)
\* Lines 147-150: the counter moves on from n, past every occupied handle.
\* With no free handle left the loop never ends (-1).
RECURSIVE SkipOccupied(_, _, _)
SkipOccupied(c, n, fuel) ==
    IF TableLookup(c, n) = NULL THEN n
    ELSE IF fuel = 0 THEN -1
    ELSE SkipOccupied(c, (n + 1) % NumHandles, fuel - 1)

\* The counter moved on by one, occupied or not.
AdvanceNoSkip(c, n) == (n + 1) % NumHandles

AdvanceWeakref(c, n) == SkipOccupied(c, (n + 1) % NumHandles, NumHandles)

mScriptContextSetWeakref(c, value) ==
    LET c1 == mScriptValueRef(c, value)
        c2 == TableInsert(c1, c.nextWeakref, value)
        n == AdvanceWeakref(c2, c.nextWeakref)
    IN IF n = -1
       THEN [c |-> [c2 EXCEPT !.pc = "hung",
                              !.nextWeakref = (c.nextWeakref + 1) % NumHandles],
             ret |-> c.nextWeakref]
       ELSE [c |-> [c2 EXCEPT !.nextWeakref = n], ret |-> c.nextWeakref]

\* The new Value wraps the counter as it is after the insertion.
MakeWeakrefOfCounter(c, value) ==
    LET r == mScriptContextSetWeakref(c, value)
    IN IF r.c.pc = "hung" THEN [c |-> r.c, ret |-> NULL]
       ELSE [c |-> mScriptValueDeref(r.c, value),
             ret |-> WeakrefValue(r.c.nextWeakref)]

mScriptContextMakeWeakref(c, value) ==
    LET r == mScriptContextSetWeakref(c, value)
    IN IF r.c.pc = "hung" THEN [c |-> r.c, ret |-> NULL]
       ELSE [c |-> mScriptValueDeref(r.c, value), ret |-> WeakrefValue(r.ret)]

\* value is a host Value or a weak-reference Value.
mScriptContextAccessWeakref(c, value) ==
    IF value \notin WIds THEN value
    ELSE TableLookup(c, U32(value))

mScriptContextClearWeakref(c, weakref) == TableRemove(c, weakref)

(***************************************************************************)
(* Engine Contexts: the callbacks the registry calls are the engine's own; *)
(* an engine keeps the binding it was last told and can look at the        *)
(* registry while it is being called.                                      *)
(***************************************************************************)
NoGlobals == [k \in Keys |-> NULL]
NoContext == [name |-> "", state |-> "none", destroys |-> 0, globals |-> NoGlobals]

\* What an engine sees of key when it is called: the root scope's entry and
\* what that entry's handle resolves to.
Resolves(c, key) ==
    IF c.rootScope[key] = NULL THEN NULL
    ELSE mScriptContextAccessWeakref(c, c.rootScope[key])

\* What is left of the owned structures: the keys whose handle resolves, the
\* live handles of the table and the length of the pool.
Snapshot(c) ==
    [scope |-> {k \in Keys : Resolves(c, k) # NULL},
     live |-> {h \in Handles : c.weakrefs[h] # NULL},
     pool |-> Len(c.refPool)]

Call(c, fn, ctx, key, value, ret) ==
    [fn |-> fn, ctx |-> ctx, key |-> key, value |-> value, ret |-> ret,
     at |-> Snapshot(c),
     inScope |-> IF key \in Keys THEN c.rootScope[key] ELSE NULL,
     resolves |-> IF key \in Keys THEN Resolves(c, key) ELSE NULL]

\* The Engine Context is left as it is.
EngineContextKept(c, ctx) == c

\* context->destroy(context): the engine's own state is released.
_engineContextDestroy(c, ctx) ==
    [c EXCEPT !.ectx[ctx].state = "destroyed",
              !.ectx[ctx].destroys = @ + 1,
              !.ectx[ctx].globals = NoGlobals,
              !.log = Append(@, Call(c, "destroy", ctx, "", NULL, TRUE))]

\* context->setGlobal(context, pair->key, pair->value)
_contextAddGlobal(c, ctx, key, value) ==
    [c EXCEPT !.ectx[ctx].globals[key] = value,
              !.log = Append(@, Call(c, "setGlobal", ctx, key, value, TRUE))]

\* context->setGlobal(context, user, NULL)
_contextRemoveGlobal(c, ctx, key) ==
    [c EXCEPT !.ectx[ctx].globals[key] = NULL,
              !.log = Append(@, Call(c, "setGlobal", ctx, key, NULL, TRUE))]

\* The orders HashTableEnumerate may visit the registered engines in.
Registered(c) == {n \in EngineNames : c.engines[n] # NULL}
Orders(c) ==
    {o \in [1 .. Cardinality(Registered(c)) -> Registered(c)] :
        \A i, j \in DOMAIN o : i # j => o[i] # o[j]}

\* HashTableEnumerate(&context->engines, _contextAddGlobal, &pair)
RECURSIVE EnumerateAddGlobal(_, _, _, _)
EnumerateAddGlobal(c, order, key, value) ==
    IF order = <<>> THEN c
    ELSE EnumerateAddGlobal(_contextAddGlobal(c, c.engines[Head(order)], key, value),
                            Tail(order), key, value)

\* HashTableEnumerate(&context->engines, _contextRemoveGlobal, key)
RECURSIVE EnumerateRemoveGlobal(_, _, _)
EnumerateRemoveGlobal(c, order, key) ==
    IF order = <<>> THEN c
    ELSE EnumerateRemoveGlobal(_contextRemoveGlobal(c, c.engines[Head(order)], key),
                               Tail(order), key)

(***************************************************************************)
(* The hash tables of the context (HashTableInsert, HashTableRemove of     *)
(* util/table) with the deinitializers mScriptContextInit gives them.      *)
(***************************************************************************)
\* rootScope: the weak-reference Value replaced or removed is dereffed by the
\* deinitializer (it has the one reference of the root scope: it is freed).
RootScopeInsert(c, key, w) == [c EXCEPT !.rootScope[key] = w]

RootScopeRemove(c, key) == [c EXCEPT !.rootScope[key] = NULL]

\* engines: the deinitializer destroys the Engine Context replaced.
EnginesInsert(c, name, ctx) ==
    LET old == c.engines[name]
        c1 == IF old # NULL /\ old # ctx THEN _engineContextDestroy(c, old) ELSE c
    IN [c1 EXCEPT !.engines[name] = ctx]

(***************************************************************************)
(* Global variables.                                                       *)
(***************************************************************************)
\* The new value is installed before the old entry of the key is cleared.
SetGlobalInstallFirst(c, key, value, order) ==
    LET oldValue == c.rootScope[key]
        r == mScriptContextSetWeakref(c, value)
        c1 == IF oldValue # NULL
              THEN mScriptContextClearWeakref(r.c, U32(oldValue))
              ELSE r.c
    IN IF r.c.pc = "hung" THEN r.c
       ELSE LET w == WeakrefValue(r.ret)
            IN EnumerateAddGlobal(RootScopeInsert(c1, key, w), order, key, w)

\* The engines are handed the Value itself, not the weak-reference Value.
SetGlobalDirect(c, key, value, order) ==
    LET oldValue == c.rootScope[key]
        c1 == IF oldValue # NULL
              THEN mScriptContextClearWeakref(c, U32(oldValue))
              ELSE c
        r == mScriptContextSetWeakref(c1, value)
    IN IF r.c.pc = "hung" THEN r.c
       ELSE EnumerateAddGlobal(RootScopeInsert(r.c, key, WeakrefValue(r.ret)),
                               order, key, value)

mScriptContextSetGlobal(c, key, value, order) ==
    LET oldValue == c.rootScope[key]
        c1 == IF oldValue # NULL
              THEN mScriptContextClearWeakref(c, U32(oldValue))
              ELSE c
        r == mScriptContextSetWeakref(c1, value)
    IN IF r.c.pc = "hung" THEN r.c
       ELSE LET w == WeakrefValue(r.ret)
                c2 == RootScopeInsert(r.c, key, w)
            IN EnumerateAddGlobal(c2, order, key, w)

\* The handle is cleared and the key erased before the engines are told.
RemoveGlobalClearFirst(c, key, order) ==
    LET oldValue == c.rootScope[key]
    IN IF oldValue = NULL THEN c
       ELSE EnumerateRemoveGlobal(
               RootScopeRemove(mScriptContextClearWeakref(c, U32(oldValue)), key),
               order, key)

\* The entry of the table is cleared and the key stays in the root scope.
RemoveGlobalKeepKey(c, key, order) ==
    IF c.rootScope[key] = NULL THEN c
    ELSE LET c1 == EnumerateRemoveGlobal(c, order, key)
         IN mScriptContextClearWeakref(c1, U32(c1.rootScope[key]))

\* The removal goes on when the key is not in the root scope.
RemoveGlobalUnguarded(c, key, order) ==
    LET c1 == EnumerateRemoveGlobal(c, order, key)
        oldValue == c1.rootScope[key]
    IN IF oldValue # NULL
       THEN RootScopeRemove(mScriptContextClearWeakref(c1, U32(oldValue)), key)
       ELSE c1

mScriptContextRemoveGlobal(c, key, order) ==
    IF c.rootScope[key] = NULL THEN c
    ELSE LET c1 == EnumerateRemoveGlobal(c, order, key)
             oldValue == c1.rootScope[key]
         IN IF oldValue # NULL
            THEN RootScopeRemove(
                    mScriptContextClearWeakref(c1, U32(oldValue)), key)
            ELSE c1

(***************************************************************************)
(* Engine registration.                                                    *)
(***************************************************************************)
\* The Engine Context a successful create factory yields: the next unused one.
NewContexts(c) == {x \in CtxIds : c.ectx[x].state = "none"}
Create(c) == CHOOSE x \in NewContexts(c) : \A y \in NewContexts(c) : x <= y

\* What create yields is stored in engines whether it is a context or not.
RegisterEngineUnchecked(c, name, created) ==
    IF created
    THEN LET x == Create(c)
             c1 == [c EXCEPT !.ectx[x] = [NoContext EXCEPT !.name = name,
                                                          !.state = "live"]]
         IN [c |-> EnginesInsert(c1, name, x), ret |-> x]
    ELSE [c |-> EnginesInsert(c, name, NULL), ret |-> NULL]

\* created: whether engine->create yields a context.
mScriptContextRegisterEngine(c, name, created) ==
    IF created
    THEN LET x == Create(c)
             c1 == [c EXCEPT !.ectx[x] = [NoContext EXCEPT !.name = name,
                                                          !.state = "live"]]
         IN [c |-> EnginesInsert(c1, name, x), ret |-> x]
    ELSE [c |-> c, ret |-> NULL]

(***************************************************************************)
(* The deferred-release pool.                                              *)
(***************************************************************************)
mScriptContextFillPool(c, value) ==
    IF c.refs[value] = mSCRIPT_VALUE_UNREF THEN c
    ELSE IF IsScalar(value) THEN c
    ELSE [c EXCEPT !.refPool = Append(@, value)]

\* The loop of lines 89-94, from entry i on.
RECURSIVE DrainFrom(_, _)
DrainFrom(c, i) ==
    IF i > Len(c.refPool) THEN c
    ELSE LET value == c.refPool[i]
         IN DrainFrom(IF value # NULL THEN mScriptValueDeref(c, value) ELSE c, i + 1)

\* The pool keeps its entries after the loop.
DrainPoolNoClear(c) == DrainFrom(c, 1)

mScriptContextDrainPool(c) ==
    [DrainFrom(c, 1) EXCEPT !.refPool = <<>>]

(***************************************************************************)
(* Script loading.                                                         *)
(***************************************************************************)
\* Every engine is probed, found or not: the last to answer true is kept.
FindForFileNoShortCircuit(st, ctx, sniff) ==
    [c |-> [st.c EXCEPT !.log =
               Append(@, Call(st.c, "isScript", ctx, "", NULL, sniff[ctx]))],
     info |-> IF sniff[ctx] THEN ctx ELSE st.info]

\* sniff[x]: what Engine Context x's isScript answers for the resource.
\* info is the Engine Context found so far (info->context).
_contextFindForFile(st, ctx, sniff) ==
    IF st.info # NULL THEN st
    ELSE [c |-> [st.c EXCEPT !.log =
                    Append(@, Call(st.c, "isScript", ctx, "", NULL, sniff[ctx]))],
          info |-> IF sniff[ctx] THEN ctx ELSE NULL]

\* HashTableEnumerate(&context->engines, _contextFindForFile, &info)
RECURSIVE EnumerateFindForFile(_, _, _)
EnumerateFindForFile(st, order, sniff) ==
    IF order = <<>> THEN st
    ELSE EnumerateFindForFile(_contextFindForFile(st, st.c.engines[Head(order)], sniff),
                              Tail(order), sniff)

\* When the selected engine's load fails, the other engines' load is tried.
LoadVFFallback(c, sniff, loads, order) ==
    LET st == EnumerateFindForFile([c |-> c, info |-> NULL], order, sniff)
        c1 == [st.c EXCEPT !.log =
                  Append(@, Call(st.c, "load", st.info, "", NULL, loads))]
        others == {c.engines[n] : n \in Registered(c)} \ {st.info}
    IN IF st.info = NULL THEN [c |-> st.c, ret |-> FALSE]
       ELSE IF loads \/ others = {} THEN [c |-> c1, ret |-> loads]
       ELSE [c |-> [c1 EXCEPT !.log =
                       Append(@, Call(c1, "load", CHOOSE x \in others : TRUE, "",
                                      NULL, FALSE))],
             ret |-> FALSE]

\* loads: what the selected engine's load returns.
mScriptContextLoadVF(c, sniff, loads, order) ==
    LET st == EnumerateFindForFile([c |-> c, info |-> NULL], order, sniff)
    IN IF st.info = NULL THEN [c |-> st.c, ret |-> FALSE]
       ELSE [c |-> [st.c EXCEPT !.log =
                       Append(@, Call(st.c, "load", st.info, "", NULL, loads))],
             ret |-> loads]

\* The resource is closed only when the load succeeded.
LoadFileCloseOnSuccess(c, opened, sniff, loads, order) ==
    IF ~opened THEN [c |-> c, ret |-> FALSE]
    ELSE LET r == mScriptContextLoadVF(c, sniff, loads, order)
         IN IF ~r.ret THEN r
            ELSE [c |-> [r.c EXCEPT !.log =
                            Append(@, Call(r.c, "close", NULL, "", NULL, TRUE))],
                  ret |-> r.ret]

\* opened: whether VFileOpen yields a resource.
mScriptContextLoadFile(c, opened, sniff, loads, order) ==
    IF ~opened THEN [c |-> c, ret |-> FALSE]
    ELSE LET r == mScriptContextLoadVF(c, sniff, loads, order)
         IN [c |-> [r.c EXCEPT !.log =
                       Append(@, Call(r.c, "close", NULL, "", NULL, TRUE))],
             ret |-> r.ret]

(***************************************************************************)
(* The invocation bridge.                                                  *)
(***************************************************************************)
ScalarTypes == {mSCRIPT_TYPE_SINT, mSCRIPT_TYPE_UINT, mSCRIPT_TYPE_FLOAT}

\* mScriptCoerceFrame: the argument list fits the parameter list when the
\* counts agree and every argument has the parameter's type or converts to it
\* (the scalar types convert into one another).
Converts(from, to) ==
    from = to \/ (from \in ScalarTypes /\ to \in ScalarTypes)

mScriptCoerceFrame(parameters, arguments) ==
    /\ Len(arguments) = Len(parameters)
    /\ \A i \in 1 .. Len(parameters) : Converts(arguments[i], parameters[i])

\* The native call is made whatever the coercion answered.
InvokeUncoerced(c, val, frame, calls) ==
    IF val.base # mSCRIPT_TYPE_FUNCTION THEN [c |-> c, ret |-> FALSE]
    ELSE LET ok == mScriptCoerceFrame(val.parameters, frame.arguments)
             c1 == [c EXCEPT !.log = Append(@, Call(c, "coerce", NULL, "", NULL, ok))]
         IN [c |-> [c1 EXCEPT !.log =
                       Append(@, Call(c1, "call", val.context, "", NULL, calls))],
             ret |-> calls]

\* val: [base, parameters, context], the function Value's type and its
\* mScriptFunction; frame: [arguments]; calls: what fn->call returns when it
\* is called. The log tells the coercion and the native call.
mScriptInvoke(c, val, frame, calls) ==
    IF val.base # mSCRIPT_TYPE_FUNCTION THEN [c |-> c, ret |-> FALSE]
    ELSE LET ok == mScriptCoerceFrame(val.parameters, frame.arguments)
             c1 == [c EXCEPT !.log = Append(@, Call(c, "coerce", NULL, "", NULL, ok))]
         IN IF ~ok THEN [c |-> c1, ret |-> FALSE]
            ELSE [c |-> [c1 EXCEPT !.log =
                            Append(@, Call(c1, "call", val.context, "", NULL, calls))],
                  ret |-> calls]

(***************************************************************************)
(* Teardown.                                                               *)
(***************************************************************************)
\* HashTableDeinit(&context->engines): every Engine Context is destroyed.
RECURSIVE EnginesDeinit(_, _)
EnginesDeinit(c, order) ==
    IF order = <<>> THEN [c EXCEPT !.engines = [n \in EngineNames |-> NULL]]
    ELSE EnginesDeinit(_engineContextDestroy(c, c.engines[Head(order)]), Tail(order))

\* HashTableDeinit(&context->rootScope): every weak-reference Value is dereffed.
RECURSIVE RootScopeDeinit(_, _)
RootScopeDeinit(c, keys) ==
    IF keys = {} THEN c
    ELSE LET k == CHOOSE x \in keys : TRUE
         IN RootScopeDeinit(RootScopeRemove(c, k), keys \ {k})

\* HashTableDeinit(&context->weakrefs): every entry's reference is released.
RECURSIVE WeakrefsDeinit(_, _)
WeakrefsDeinit(c, hs) ==
    IF hs = {} THEN c
    ELSE LET h == CHOOSE x \in hs : TRUE
         IN WeakrefsDeinit(TableRemove(c, h), hs \ {h})

\* A structure of the context has been released: what is left then.
Released(c, what) == [c EXCEPT !.log = Append(@, Call(c, what, NULL, "", NULL, TRUE))]

\* The pool is drained first and the engines are destroyed last.
DeinitBackwards(c, order) ==
    LET c1 == Released(mScriptContextDrainPool(c), "refPool")
        c2 == Released(WeakrefsDeinit(c1, Handles), "weakrefs")
        c3 == Released(RootScopeDeinit(c2, Keys), "rootScope")
        c4 == EnginesDeinit(c3, order)
    IN [c4 EXCEPT !.pc = "deinit", !.boundVal = [k \in Keys |-> NULL]]

mScriptContextDeinit(c, order) ==
    LET c1 == EnginesDeinit(c, order)
        c2 == Released(RootScopeDeinit(c1, Keys), "rootScope")
        c3 == Released(WeakrefsDeinit(c2, Handles), "weakrefs")
        c4 == Released(mScriptContextDrainPool(c3), "refPool")
    IN [c4 EXCEPT !.pc = "deinit", !.boundVal = [k \in Keys |-> NULL]]

(***************************************************************************)
(* The state after mScriptContextInit, with the host's Values allocated    *)
(* (one reference each, the host's).                                       *)
(***************************************************************************)
\* What an operation found when it was called.
Pre(c, key) ==
    [next |-> c.nextWeakref,
     occupied |-> c.weakrefs[c.nextWeakref] # NULL,
     inScope |-> IF key \in Keys THEN c.rootScope[key] ELSE NULL,
     resolves |-> IF key \in Keys THEN Resolves(c, key) ELSE NULL,
     bound |-> IF key \in Keys THEN c.boundVal[key] ELSE NULL,
     pool |-> c.refPool,
     at |-> Snapshot(c),
     engines |-> {c.engines[n] : n \in Registered(c)}]

NoInput == [none |-> TRUE]

Init ==
    /\ refs = [v \in Vals |-> IF v \in SentinelVals THEN mSCRIPT_VALUE_UNREF ELSE 1]
    /\ dtor = [v \in Vals |-> 0]
    /\ hostRefs = [v \in Vals |-> IF v \in CountedVals THEN 1 ELSE 0]
    /\ weakrefs = [h \in Handles |-> NULL]
    /\ nextWeakref = 0
    /\ hostWeak = {}
    /\ rootScope = [k \in Keys |-> NULL]
    /\ boundVal = [k \in Keys |-> NULL]
    /\ engines = [n \in EngineNames |-> NULL]
    /\ ectx = [x \in CtxIds |-> NoContext]
    /\ refPool = <<>>
    /\ flags = [uaf |-> FALSE, clobber |-> FALSE]
    /\ pc = "run"
    /\ last = [op |-> "init", key |-> "", val |-> NULL, ret |-> NULL, ok |-> FALSE,
               calls |-> <<>>,
               pre |-> Pre(Ctx, ""), in |-> NoInput]

(***************************************************************************)
(* The host: what it may pass and what it owns.                            *)
(***************************************************************************)
\* References of v the host handed to the pool.
Pooled(c, v) == Cardinality({i \in DOMAIN c.refPool : c.refPool[i] = v})
\* The host owns a reference of v it has not handed to the pool.
HostOwns(c, v) == c.hostRefs[v] > Pooled(c, v)
\* The host can name v: it owns a reference, or borrows the Value from the table.
Nameable(c, v) ==
    \/ v \notin CountedVals
    \/ c.hostRefs[v] > 0
    \/ \E h \in Handles : c.weakrefs[h] = v
\* The Values the host passes to the weak-reference and global operations.
Passable(c) == {v \in CountedVals \cup ScalarVals : Nameable(c, v) /\ c.refs[v] < MaxRefs}

\* A use after free goes on with the freed memory as it was left, or with
\* anything else in the count it wrote to, or it ends the process.
Outcomes(c0, c1) ==
    IF c1.flags.uaf /\ ~c0.flags.uaf
    THEN {c1, [c0 EXCEPT !.pc = "crashed", !.flags.uaf = TRUE]}
         \cup {[c1 EXCEPT !.refs[v] = g] :
                  v \in {x \in CountedVals : c1.dtor[x] > 0}, g \in 0 .. MaxRefs}
    ELSE {c1}

\* The operation ends: the context is as the call left it, and last tells
\* what was called with what, what it found, called and returned.
\* ret is the Value, handle or Engine Context returned, ok the boolean.
Done(c0, c1, op, key, val, ret, ok, in) ==
    \E c2 \in Outcomes(c0, c1) :
        /\ Commit(c2)
        /\ last' = [op |-> op, key |-> key, val |-> val,
                    ret |-> IF c2.pc \in {"hung", "crashed"} THEN NULL ELSE ret,
                    ok |-> ok,
                    calls |-> c2.log, pre |-> Pre(c0, key), in |-> in]

Finish(c0, c1, op, key, val, ret, in) == Done(c0, c1, op, key, val, ret, FALSE, in)
FinishBool(c0, c1, op, key, val, ok, in) == Done(c0, c1, op, key, val, NULL, ok, in)

(***************************************************************************)
(* Actions: one per operation.                                             *)
(***************************************************************************)
HostRef(v) ==
    /\ pc = "run"
    /\ v \in CountedVals /\ Nameable(Ctx, v) /\ refs[v] < MaxRefs
    /\ Finish(Ctx, [mScriptValueRef(Ctx, v) EXCEPT !.hostRefs[v] = @ + 1],
              "ref", "", v, NULL, NoInput)

HostDeref(v) ==
    /\ pc = "run"
    /\ v \in CountedVals /\ HostOwns(Ctx, v)
    /\ Finish(Ctx, [mScriptValueDeref(Ctx, v) EXCEPT !.hostRefs[v] = @ - 1],
              "deref", "", v, NULL, NoInput)

SetWeakref(v) ==
    /\ pc = "run"
    /\ v \in Passable(Ctx)
    /\ LET r == mScriptContextSetWeakref(Ctx, v)
       IN Finish(Ctx, r.c, "setWeakref", "", v, r.ret, NoInput)

MakeWeakref(v) ==
    /\ pc = "run"
    /\ v \in Passable(Ctx)
    /\ v \in CountedVals => HostOwns(Ctx, v)
    /\ Cardinality(hostWeak) < MaxHostWeak
    /\ LET r == mScriptContextMakeWeakref(Ctx, v)
           c1 == IF v \in CountedVals /\ r.c.pc = "run"
                 THEN [r.c EXCEPT !.hostRefs[v] = @ - 1] ELSE r.c
           c2 == IF r.c.pc = "run"
                 THEN [c1 EXCEPT !.hostWeak = @ \cup
                          {[u32 |-> U32(r.ret), val |-> v,
                            cleared |-> FALSE, reused |-> FALSE]}]
                 ELSE c1
       IN Finish(Ctx, c2, "makeWeakref", "", v, r.ret, NoInput)

AccessWeakref(value) ==
    /\ pc = "run"
    /\ \/ value \in CountedVals \cup ScalarVals /\ Nameable(Ctx, value)
       \/ value \in WIds
    /\ Finish(Ctx, Ctx, "accessWeakref", "", value,
              mScriptContextAccessWeakref(Ctx, value), NoInput)

ClearWeakref(h) ==
    /\ pc = "run"
    /\ Finish(Ctx, mScriptContextClearWeakref(Ctx, h), "clearWeakref", "", h, NULL, NoInput)

\* The host drops a weak-reference Value it holds (its deref frees it).
DropWeak(w) ==
    /\ pc = "run"
    /\ w \in hostWeak
    /\ Finish(Ctx, [Ctx EXCEPT !.hostWeak = @ \ {w}], "dropWeak", "",
              WeakrefValue(w.u32), NULL, NoInput)

SetGlobal(key, v) ==
    /\ pc = "run"
    /\ v \in Passable(Ctx)
    /\ \E order \in Orders(Ctx) :
          LET c1 == mScriptContextSetGlobal(Ctx, key, v, order)
          IN Finish(Ctx, IF c1.pc = "run" THEN [c1 EXCEPT !.boundVal[key] = v] ELSE c1,
                    "setGlobal", key, v, NULL, [order |-> order])

RemoveGlobal(key) ==
    /\ pc = "run"
    /\ \E order \in Orders(Ctx) :
          LET c1 == mScriptContextRemoveGlobal(Ctx, key, order)
          IN Finish(Ctx, [c1 EXCEPT !.boundVal[key] = NULL],
                    "removeGlobal", key, NULL, NULL, [order |-> order])

RegisterEngine(name, created) ==
    /\ pc = "run"
    /\ NewContexts(Ctx) # {}
    /\ LET r == mScriptContextRegisterEngine(Ctx, name, created)
       IN Finish(Ctx, r.c, "registerEngine", name, NULL, r.ret, [created |-> created])

\* The host hands one of its references of value to the pool.
FillPool(value) ==
    /\ pc = "run"
    /\ Len(refPool) < MaxPool
    /\ value \in CountedVals => HostOwns(Ctx, value)
    /\ Finish(Ctx, mScriptContextFillPool(Ctx, value), "fillPool", "", value, NULL, NoInput)

\* The references the pool released were the host's.
Unpool(c0, c1) ==
    [c1 EXCEPT !.hostRefs = [v \in Vals |-> c0.hostRefs[v] - Pooled(c0, v)]]

DrainPool ==
    /\ pc = "run"
    /\ Finish(Ctx, Unpool(Ctx, mScriptContextDrainPool(Ctx)), "drainPool", "",
              NULL, NULL, NoInput)

LoadVF(sniff, loads) ==
    /\ pc = "run"
    /\ \E order \in Orders(Ctx) :
          LET r == mScriptContextLoadVF(Ctx, sniff, loads, order)
          IN FinishBool(Ctx, r.c, "loadVF", "", NULL, r.ret,
                    [opened |-> TRUE, sniff |-> sniff, loads |-> loads, order |-> order])

LoadFile(opened, sniff, loads) ==
    /\ pc = "run"
    /\ ~opened => (loads = FALSE /\ \A x \in CtxIds : ~sniff[x])
    /\ \E order \in Orders(Ctx) :
          LET r == mScriptContextLoadFile(Ctx, opened, sniff, loads, order)
          IN FinishBool(Ctx, r.c, "loadFile", "", NULL, r.ret,
                    [opened |-> opened, sniff |-> sniff, loads |-> loads, order |-> order])

Deinit ==
    /\ pc = "run"
    /\ \E order \in Orders(Ctx) :
          Finish(Ctx, Unpool(Ctx, mScriptContextDeinit(Ctx, order)), "deinit", "",
                 NULL, NULL, [order |-> order])

\* The function Values and frames the bridge is tried on.
ParamTypes == {mSCRIPT_TYPE_SINT, mSCRIPT_TYPE_FLOAT, mSCRIPT_TYPE_STRING}
MaxArgs == 2
Signatures == UNION {[1 .. n -> ParamTypes] : n \in 0 .. MaxArgs}
FnContexts == {31, 32}
InvokeVals ==
    [base : {mSCRIPT_TYPE_FUNCTION, mSCRIPT_TYPE_TABLE, mSCRIPT_TYPE_SINT},
     parameters : Signatures, context : FnContexts]

Invoke(val, arguments, calls) ==
    /\ pc = "run"
    /\ LET r == mScriptInvoke(Ctx, val, [arguments |-> arguments], calls)
       IN FinishBool(Ctx, r.c, "invoke", "", NULL, r.ret,
                 [val |-> val, arguments |-> arguments, calls |-> calls])

\* The answers isScript can give: one for each registered Engine Context.
Sniffs == {f \in [CtxIds -> BOOLEAN] :
              \A x \in CtxIds : f[x] => \E n \in EngineNames : engines[n] = x}

Next ==
    \/ \E v \in CountedVals : HostRef(v)
    \/ \E v \in CountedVals : HostDeref(v)
    \/ \E v \in Vals : SetWeakref(v)
    \/ \E v \in Vals : MakeWeakref(v)
    \/ \E value \in Vals \cup WIds : AccessWeakref(value)
    \/ \E h \in Handles : ClearWeakref(h)
    \/ \E w \in hostWeak : DropWeak(w)
    \/ \E key \in Keys, v \in Vals : SetGlobal(key, v)
    \/ \E key \in Keys : RemoveGlobal(key)
    \/ \E name \in EngineNames, created \in BOOLEAN : RegisterEngine(name, created)
    \/ \E value \in Vals : FillPool(value)
    \/ DrainPool
    \/ \E sniff \in Sniffs, loads \in BOOLEAN : LoadVF(sniff, loads)
    \/ \E opened \in BOOLEAN, sniff \in Sniffs, loads \in BOOLEAN :
          LoadFile(opened, sniff, loads)
    \/ \E val \in InvokeVals, arguments \in Signatures, calls \in BOOLEAN :
          Invoke(val, arguments, calls)
    \/ Deinit

Spec == Init /\ [][Next]_vars

(***************************************************************************)
(* The parts of the program taken on their own: the same actions from the  *)
(* same initial state, fewer of them at a time.                            *)
(***************************************************************************)
\* The weak-reference table and the globals, with no engine registered.
NextWeak ==
    \/ \E v \in Vals : SetWeakref(v)
    \/ \E v \in Vals : MakeWeakref(v)
    \/ \E h \in Handles : ClearWeakref(h)
    \/ \E w \in hostWeak : DropWeak(w)
    \/ \E key \in Keys, v \in Vals : SetGlobal(key, v)
    \/ \E key \in Keys : RemoveGlobal(key)

SpecWeak == Init /\ [][NextWeak]_vars

\* Globals and their propagation to the registered engines.
NextGlobals ==
    \/ \E name \in EngineNames, created \in BOOLEAN : RegisterEngine(name, created)
    \/ \E v \in CountedVals : HostDeref(v)
    \/ \E h \in Handles : ClearWeakref(h)
    \/ \E key \in Keys, v \in Vals : SetGlobal(key, v)
    \/ \E key \in Keys : RemoveGlobal(key)

SpecGlobals == Init /\ [][NextGlobals]_vars

\* Engine registration, script loading and teardown, with globals bound and
\* references in the pool.
NextLoad ==
    \/ \E name \in EngineNames, created \in BOOLEAN : RegisterEngine(name, created)
    \/ \E key \in Keys, v \in Vals : SetGlobal(key, v)
    \/ \E value \in Vals : FillPool(value)
    \/ \E sniff \in Sniffs, loads \in BOOLEAN : LoadVF(sniff, loads)
    \/ \E opened \in BOOLEAN, sniff \in Sniffs, loads \in BOOLEAN :
          LoadFile(opened, sniff, loads)
    \/ Deinit

SpecLoad == Init /\ [][NextLoad]_vars

\* The invocation bridge, which keeps no state: one call on each input.
NextInvoke ==
    \E val \in InvokeVals, arguments \in Signatures, calls \in BOOLEAN :
        last.op = "init" /\ Invoke(val, arguments, calls)

SpecInvoke == Init /\ [][NextInvoke]_vars

\* The deferred-release pool next to the host's and the table's references.
NextPool ==
    \/ \E v \in CountedVals : HostRef(v)
    \/ \E v \in CountedVals : HostDeref(v)
    \/ \E v \in Vals : SetWeakref(v)
    \/ \E h \in Handles : ClearWeakref(h)
    \/ \E value \in Vals : FillPool(value)
    \/ DrainPool

SpecPool == Init /\ [][NextPool]_vars

(***************************************************************************)
(* The weak-reference table.                                               *)
(***************************************************************************)
Entries(v) == Cardinality({h \in Handles : weakrefs[h] = v})

\* C1: setWeakref never inserts at a handle that is occupied when it is
\* called, in setGlobal, removeGlobal and makeWeakrefValue too: no insertion
\* has overwritten a live entry, and between operations the next-handle
\* counter names an unoccupied handle.
C1_NoHandleCollision ==
    /\ ~flags.clobber
    /\ pc # "hung" => weakrefs[nextWeakref] = NULL
    /\ last.op \in {"setWeakref", "makeWeakref"} => ~last.pre.occupied

\* The counter wrapped around and skipped an occupied handle.
C1_Witness ==
    /\ pc = "run"
    /\ last.op = "setWeakref"
    /\ last.ret = NumHandles - 1
    /\ nextWeakref > 0
    /\ weakrefs[0] # NULL

\* What a weak-reference Value the host holds resolves to.
Access(w) == mScriptContextAccessWeakref(Ctx, WeakrefValue(w.u32))

\* C2 as stated: a weak-reference Value made from v resolves to v until its
\* handle is cleared and to absent in every state after that.
C2_RoundTripForever ==
    \A w \in hostWeak : Access(w) = IF w.cleared THEN NULL ELSE w.val

\* C2, amended: a weak-reference Value made from v resolves to v until its
\* handle is cleared, and to absent from then until the handle is given out
\* again by a later insertion.
C2_RoundTrip ==
    \A w \in hostWeak :
        /\ ~w.cleared => Access(w) = w.val
        /\ (w.cleared /\ ~w.reused) => Access(w) = NULL

\* A weak-reference Value whose handle was just cleared, after the table went
\* through other operations.
C2_Witness ==
    /\ last.op = "clearWeakref"
    /\ \E w \in hostWeak : w.cleared /\ ~w.reused /\ w.u32 = last.val
    /\ \E k \in Keys : rootScope[k] # NULL

\* C3: for every counted Value the references taken less the references
\* released are its owners (the host's and the table's), its destructor runs
\* once and only at zero, and it is never touched after it was destroyed.
C3_ReferenceDiscipline ==
    /\ ~flags.uaf
    /\ \A v \in CountedVals :
        /\ dtor[v] <= 1
        /\ refs[v] = hostRefs[v] + Entries(v)
        /\ dtor[v] = 1 <=> refs[v] = 0

\* C4: every table entry holds one strong reference to its Value: a counted
\* Value's count is the host's references plus the entries mapping to it, and
\* a Value with an entry has not been destroyed.
C4_TableAccounting ==
    \A v \in CountedVals :
        /\ refs[v] = hostRefs[v] + Entries(v)
        /\ Entries(v) > 0 => dtor[v] = 0

(***************************************************************************)
(* Globals and their propagation.                                          *)
(***************************************************************************)
\* The Engine Contexts registered now.
RegisteredContexts == {engines[n] : n \in Registered(Ctx)}

\* The engine callbacks of the last operation: one setGlobal on every
\* registered Engine Context, each with key and value.
OncePerEngine(key, value) ==
    /\ Len(last.calls) = Cardinality(RegisteredContexts)
    /\ \A x \in RegisteredContexts :
          Cardinality({i \in DOMAIN last.calls : last.calls[i].ctx = x}) = 1
    /\ \A i \in DOMAIN last.calls :
          /\ last.calls[i].fn = "setGlobal"
          /\ last.calls[i].key = key
          /\ last.calls[i].value = value

\* C5: a setGlobal(ctx, k, v) that returns has called setGlobal once on every
\* registered engine, each time with k and the weak-reference Value stored in
\* rootScope[k], whose handle resolves to v; a removeGlobal(ctx, k) of a
\* present key has called setGlobal(k, absent) once on every registered
\* engine and rootScope no longer contains k.
C5_GlobalFanOut ==
    /\ (last.op = "setGlobal" /\ pc = "run") =>
          /\ rootScope[last.key] \in WIds
          /\ OncePerEngine(last.key, rootScope[last.key])
          /\ mScriptContextAccessWeakref(Ctx, rootScope[last.key]) = last.val
          /\ \A x \in RegisteredContexts :
                ectx[x].globals[last.key] = rootScope[last.key]
    /\ (last.op = "removeGlobal" /\ last.pre.inScope # NULL) =>
          /\ OncePerEngine(last.key, NULL)
          /\ rootScope[last.key] = NULL
          /\ \A x \in RegisteredContexts : ectx[x].globals[last.key] = NULL

\* A key bound before is bound again with two engines registered.
C5_Witness ==
    /\ last.op = "setGlobal"
    /\ pc = "run"
    /\ last.pre.inScope # NULL
    /\ Len(last.calls) = 2
    /\ last.calls[1].ctx # last.calls[2].ctx

\* C6 as stated: at every engine callback of removeGlobal(ctx, k) the handle
\* of rootScope[k] resolves to the value bound to k; every engine callback
\* of setGlobal(ctx, k, v) finds the new handle in rootScope, resolving to v.
C6_ResolvesToBound ==
    /\ last.op = "removeGlobal" =>
          \A i \in DOMAIN last.calls :
              /\ last.calls[i].inScope # NULL
              /\ last.calls[i].resolves = last.pre.bound
    /\ last.op = "setGlobal" =>
          \A i \in DOMAIN last.calls :
              /\ last.calls[i].inScope = last.calls[i].value
              /\ last.calls[i].resolves = last.val

\* C6, amended: at every engine callback of removeGlobal(ctx, k) rootScope[k]
\* and what its handle resolves to are as they were when removeGlobal was
\* called (the entry is not cleared and the key not erased before the
\* callbacks; the handle resolves to the bound value unless it was cleared,
\* or cleared and given out again, before the call); every engine callback
\* of setGlobal(ctx, k, v) finds the new handle in rootScope, resolving to v.
C6_PropagationOrdering ==
    /\ last.op = "removeGlobal" =>
          \A i \in DOMAIN last.calls :
              /\ last.calls[i].inScope # NULL
              /\ last.calls[i].inScope = last.pre.inScope
              /\ last.calls[i].resolves = last.pre.resolves
    /\ last.op = "setGlobal" =>
          \A i \in DOMAIN last.calls :
              /\ last.calls[i].inScope = last.calls[i].value
              /\ last.calls[i].resolves = last.val

\* Two engines are told of the removal of a key whose handle was live.
C6_Witness ==
    /\ last.op = "removeGlobal"
    /\ Len(last.calls) = 2
    /\ last.pre.resolves # NULL
    /\ last.pre.resolves = last.pre.bound
    /\ weakrefs[U32(last.pre.inScope)] = NULL

\* C7: removeGlobal(ctx, k) for a key k that is not in rootScope changes
\* nothing of engines, rootScope, the weak-reference table, the next-handle
\* counter and the reference counts, and calls no engine.
C7_IdempotentRemoval ==
    [][(last'.op = "removeGlobal" /\ last'.pre.inScope = NULL) =>
          /\ UNCHANGED <<engines, ectx, rootScope, weakrefs, nextWeakref, refs, dtor>>
          /\ last'.calls = <<>>]_vars

\* A key that is not bound is removed while an engine is registered and
\* another key is bound.
C7_Witness ==
    /\ last.op = "removeGlobal"
    /\ last.pre.inScope = NULL
    /\ RegisteredContexts # {}
    /\ \E k \in Keys : rootScope[k] # NULL

(***************************************************************************)
(* Script loading.                                                         *)
(***************************************************************************)
LoadOps == {"loadVF", "loadFile"}
\* The last operation enumerated the engines for a resource.
Dispatched == last.op \in LoadOps /\ last.in.opened

IsProbe(e) == e.fn = "isScript"
IsLoad(e) == e.fn = "load"
Probes == SelectSeq(last.calls, IsProbe)
Loads == SelectSeq(last.calls, IsLoad)

\* The Engine Context the enumeration of the last operation visited i-th.
Visited(i) == engines[last.in.order[i]]
\* The place in the order of the first engine whose isScript answers true.
Claimants == {i \in DOMAIN last.in.order : last.in.sniff[Visited(i)]}
FirstMatch == CHOOSE i \in Claimants : \A j \in Claimants : i <= j

\* C8: whatever the engines and the order they are enumerated in, a load
\* probes the engines in that order up to the first whose isScript answers
\* true and none after it, then calls load on that engine and no other, and
\* returns what that load returned.
C8_DispatchFirstMatch ==
    (Dispatched /\ Claimants # {}) =>
        /\ Len(Probes) = FirstMatch
        /\ \A i \in 1 .. FirstMatch : Probes[i].ctx = Visited(i)
        /\ Len(Loads) = 1
        /\ Loads[1].ctx = Visited(FirstMatch)
        /\ \A i \in DOMAIN last.calls :
              IsLoad(last.calls[i]) => \A j \in DOMAIN last.calls :
                                          IsProbe(last.calls[j]) => j < i
        /\ last.ok = last.in.loads

\* Two engines would claim the resource; the one visited first loaded it.
C8_Witness ==
    /\ Dispatched
    /\ Cardinality(Claimants) = 2
    /\ Len(Probes) = 1
    /\ Len(Loads) = 1
    /\ last.ok = TRUE

\* C9: a load that finds no engine whose isScript answers true returns false
\* and calls no load; one whose selected engine's load returns false returns
\* false and tries no other engine's load; a load that fails leaves engines,
\* rootScope, the weak-reference table and the pool as they were.
C9_LoadFailure ==
    [][LET loads == SelectSeq(last'.calls, IsLoad)
           claimed == \E x \in CtxIds : last'.in.sniff[x]
       IN (last'.op \in LoadOps /\ (~claimed \/ ~last'.in.loads)) =>
             /\ last'.ok = FALSE
             /\ ~claimed => loads = <<>>
             /\ claimed => (Len(loads) = 1 /\ loads[1].ret = FALSE)
             /\ UNCHANGED <<engines, ectx, rootScope, weakrefs, nextWeakref,
                            refPool, refs, dtor>>]_vars

\* The selected engine's load failed while another engine that claims the
\* resource was registered, a global bound and a reference pooled.
C9_Witness ==
    /\ Dispatched
    /\ last.ok = FALSE
    /\ Cardinality(Claimants) = 2
    /\ Len(Loads) = 1
    /\ refPool # <<>>
    /\ \E k \in Keys : rootScope[k] # NULL

(***************************************************************************)
(* The invocation bridge.                                                  *)
(***************************************************************************)
IsCoerce(e) == e.fn = "coerce"
IsCall(e) == e.fn = "call"
Coercions == SelectSeq(last.calls, IsCoerce)
NativeCalls == SelectSeq(last.calls, IsCall)

\* C10: invoke returns false without the native call when the value is not
\* function-typed (and then attempts no coercion) or when the coercion of the
\* frame's arguments against the parameter signature fails; when both checks
\* pass the native call is made once, after the coercion, with the
\* function's context, and invoke returns what the call returned.
C10_CoercionGate ==
    last.op = "invoke" =>
        LET val == last.in.val
            function == val.base = mSCRIPT_TYPE_FUNCTION
            coerced == Coercions # <<>> /\ Coercions[1].ret
        IN /\ ~function => (last.ok = FALSE /\ last.calls = <<>>)
           /\ function => Len(Coercions) = 1 /\ IsCoerce(last.calls[1])
           /\ (function /\ ~coerced) => (last.ok = FALSE /\ NativeCalls = <<>>)
           /\ (function /\ coerced) =>
                 /\ Len(NativeCalls) = 1
                 /\ NativeCalls[1].ctx = val.context
                 /\ last.ok = last.in.calls
           /\ function =>
                 Coercions[1].ret = mScriptCoerceFrame(val.parameters, last.in.arguments)

\* A function of two parameters is invoked on a frame of one argument, with a
\* native call that would have returned true.
C10_Witness ==
    /\ last.op = "invoke"
    /\ last.in.val.base = mSCRIPT_TYPE_FUNCTION
    /\ Len(last.in.val.parameters) = 2
    /\ Len(last.in.arguments) = 1
    /\ last.in.calls = TRUE
    /\ last.ok = FALSE
    /\ NativeCalls = <<>>

(***************************************************************************)
(* The deferred-release pool.                                              *)
(***************************************************************************)
\* C11: fillPool adds no entry for a scalar Value or a Value in the sentinel
\* state and one entry, with no reference taken, for any other Value;
\* drainPool dereferences every Value once for each entry that tracks it and
\* leaves the pool empty, so a drainPool of an empty pool dereferences
\* nothing.
C11_PoolDrain ==
    [][/\ last'.op = "fillPool" =>
             /\ refs' = refs /\ dtor' = dtor
             /\ refPool' = IF IsScalar(last'.val) \/ last'.val \in SentinelVals
                           THEN refPool
                           ELSE Append(refPool, last'.val)
       /\ last'.op = "drainPool" =>
             /\ refPool' = <<>>
             /\ \A v \in Vals :
                   /\ refs'[v] = IF v \in CountedVals
                                 THEN refs[v] - Pooled(Ctx, v) ELSE refs[v]
                   /\ dtor'[v] = IF v \in CountedVals /\ Pooled(Ctx, v) > 0
                                    /\ refs[v] = Pooled(Ctx, v)
                                 THEN 1 ELSE dtor[v]]_vars

\* A drain of a pool of two entries released the last two references of a
\* Value.
C11_Witness ==
    /\ last.op = "drainPool"
    /\ Len(last.pre.pool) = 2
    /\ refPool = <<>>
    /\ \E v \in CountedVals : dtor[v] = 1 /\ refs[v] = 0 /\ hostRefs[v] = 0
    /\ ~flags.uaf

(***************************************************************************)
(* Engine registration and teardown.                                       *)
(***************************************************************************)
\* The Engine Contexts the create factories have yielded so far.
Created == {x \in CtxIds : ectx[x].state # "none"}
IsDestroy(e) == e.fn = "destroy"

\* C12 as stated: every Engine Context a create factory yielded is destroyed
\* exactly once, at teardown and not earlier.
C12_DestroyedAtTeardown ==
    /\ \A x \in Created : ectx[x].destroys = IF pc = "deinit" THEN 1 ELSE 0

\* C12, amended: every Engine Context a create factory yielded is destroyed
\* exactly once: at teardown when it is still stored in engines then, and at
\* the registerEngine that stores another context under its name otherwise.
C12_EngineLifecycle ==
    /\ \A x \in Created : ectx[x].destroys = IF ectx[x].state = "destroyed" THEN 1 ELSE 0
    /\ pc = "deinit" => \A x \in Created : ectx[x].state = "destroyed"
    /\ pc = "run" =>
          \A x \in Created :
              ectx[x].state = "live" <=> \E n \in EngineNames : engines[n] = x
    /\ last.op = "deinit" =>
          /\ \A i \in DOMAIN last.calls :
                IsDestroy(last.calls[i]) =>
                    \E n \in last.pre.engines : last.calls[i].ctx = n
          /\ \A x \in last.pre.engines :
                Cardinality({i \in DOMAIN last.calls :
                    IsDestroy(last.calls[i]) /\ last.calls[i].ctx = x}) = 1
    /\ last.op = "registerEngine" =>
          \A i \in DOMAIN last.calls :
              /\ IsDestroy(last.calls[i])
              /\ last.calls[i].ctx \in last.pre.engines
              /\ last.calls[i].ctx # last.ret
              /\ ectx[last.calls[i].ctx].name = last.key

\* Teardown after an engine was registered twice under one name: one Engine
\* Context is destroyed at teardown, the other was destroyed before.
C12_Witness ==
    /\ last.op = "deinit"
    /\ Cardinality(Created) = 2
    /\ Cardinality(last.pre.engines) = 1
    /\ Cardinality({i \in DOMAIN last.calls : IsDestroy(last.calls[i])}) = 1
    /\ \A x \in Created : ectx[x].destroys = 1

\* The steps of the last teardown after the engines' destroy callbacks: the
\* root scope, the table and the pool, each with what was left after it.
Releases == SelectSeq(last.calls, LAMBDA e : ~IsDestroy(e))
Destroys == SelectSeq(last.calls, IsDestroy)

\* C13: teardown destroys the engines, then clears the root scope, then the
\* weak-reference table, then drains the pool: every destroy callback runs
\* with rootScope and the table as they were before teardown (every handle
\* of a global that resolved still resolves), and the pool is drained only
\* after the table has released its references.
C13_TeardownOrder ==
    last.op = "deinit" =>
        /\ last.calls = Destroys \o Releases
        /\ \A i \in DOMAIN Destroys : Destroys[i].at = last.pre.at
        /\ Len(Releases) = 3
        /\ Releases[1].fn = "rootScope"
        /\ Releases[1].at = [last.pre.at EXCEPT !.scope = {}]
        /\ Releases[2].fn = "weakrefs"
        /\ Releases[2].at = [last.pre.at EXCEPT !.scope = {}, !.live = {}]
        /\ Releases[3].fn = "refPool"
        /\ Releases[3].at = [scope |-> {}, live |-> {}, pool |-> 0]
        /\ rootScope = [k \in Keys |-> NULL]
        /\ weakrefs = [h \in Handles |-> NULL]
        /\ refPool = <<>>

\* Teardown with two engines registered, a global bound and a reference in
\* the pool.
C13_Witness ==
    /\ last.op = "deinit"
    /\ Len(Destroys) = 2
    /\ last.pre.at.scope # {}
    /\ last.pre.at.pool > 0

\* C14: a registerEngine whose create factory yields no context returns
\* absent and leaves engines, rootScope, the weak-reference table, the
\* next-handle counter and the pool unchanged (and destroys no engine); one
\* whose factory yields a context returns that context, stored in engines
\* under the descriptor's name.
C14_RegistrationFailure ==
    [][last'.op = "registerEngine" =>
          /\ UNCHANGED <<rootScope, weakrefs, nextWeakref, refPool, refs, dtor>>
          /\ ~last'.in.created =>
                /\ last'.ret = NULL
                /\ last'.calls = <<>>
                /\ UNCHANGED <<engines, ectx>>
          /\ last'.in.created =>
                /\ last'.ret \in CtxIds
                /\ ectx[last'.ret].state = "none"
                /\ ectx'[last'.ret].state = "live"
                /\ engines' = [engines EXCEPT ![last'.key] = last'.ret]]_vars

\* The factory of an engine that is registered already yields nothing, with
\* a global bound and a reference in the pool.
C14_Witness ==
    /\ last.op = "registerEngine"
    /\ ~last.in.created
    /\ last.ret = NULL
    /\ engines[last.key] # NULL
    /\ \E k \in Keys : rootScope[k] # NULL
    /\ refPool # <<>>

IsClose(e) == e.fn = "close"
Closes == SelectSeq(last.calls, IsClose)
\* What loadFromResource does on the resource of the last operation.
FromResource ==
    mScriptContextLoadVF(Ctx, last.in.sniff, last.in.loads, last.in.order)

\* C15: a load by path whose path cannot be opened returns false with no
\* engine probed or loaded; otherwise the resource is closed exactly once,
\* whether no engine claims it, the load fails or the load succeeds, the close
\* comes after the probes and the load, and the result is that of
\* loadFromResource.
C15_ScopedResource ==
    last.op = "loadFile" =>
        /\ ~last.in.opened => (last.ok = FALSE /\ last.calls = <<>>)
        /\ last.in.opened =>
              /\ Len(Closes) = 1
              /\ IsClose(last.calls[Len(last.calls)])
              /\ SubSeq(last.calls, 1, Len(last.calls) - 1) = FromResource.c.log
              /\ last.ok = FromResource.ret

\* The resource was opened and closed on each exit path: the selected
\* engine's load failed here.
C15_Witness ==
    /\ last.op = "loadFile"
    /\ last.in.opened
    /\ Len(Loads) = 1
    /\ last.ok = FALSE
    /\ IsClose(last.calls[Len(last.calls)])
    /\ Len(last.calls) >= 3

(***************************************************************************)
(* Rebinding, the root scope and the engines' bindings.                    *)
(***************************************************************************)
\* The first handle from n on (wrapping) that is free in the table tab.
RECURSIVE FirstFree(_, _, _)
FirstFree(tab, n, fuel) ==
    IF tab[n] = NULL \/ fuel = 0 THEN n
    ELSE FirstFree(tab, (n + 1) % NumHandles, fuel - 1)

\* The counts after one reference of v1 was released and one of v2 taken.
Moved(v1, v2) ==
    LET released == IF v1 \in CountedVals THEN [refs EXCEPT ![v1] = @ - 1] ELSE refs
    IN IF v2 \in CountedVals THEN [released EXCEPT ![v2] = @ + 1] ELSE released

\* C16: a setGlobal(ctx, k, v2) called while k is bound to v1 through a live
\* handle h1 returns with h1 cleared (one reference of v1 released, and h1
\* free when the counter moves on), v2 installed under the handle h2 the
\* counter named, which was unoccupied and is not h1, rootScope[k] a
\* weak-reference Value wrapping h2 that resolves to v2, the other keys and
\* handles as they were, and h1 no longer resolving.
C16_Rebinding ==
    [][(last'.op = "setGlobal" /\ Resolves(Ctx, last'.key) # NULL) =>
          LET k == last'.key
              h1 == U32(rootScope[k])
              v1 == weakrefs[h1]
              v2 == last'.val
              h2 == nextWeakref
          IN /\ pc' # "hung"
             /\ pc' = "run" =>
                   /\ weakrefs[h2] = NULL /\ h2 # h1
                   /\ rootScope' = [rootScope EXCEPT ![k] = WeakrefValue(h2)]
                   /\ weakrefs' = [weakrefs EXCEPT ![h1] = NULL, ![h2] = v2]
                   /\ mScriptContextAccessWeakref(Ctx', rootScope'[k]) = v2
                   /\ mScriptContextAccessWeakref(Ctx', WeakrefValue(h1)) = NULL
                   /\ nextWeakref' = FirstFree(weakrefs', (h2 + 1) % NumHandles, NumHandles)
                   /\ ~flags'.uaf => refs' = Moved(v1, v2)]_vars

\* A key bound to a counted Value is bound to another Value, and the counter
\* wraps around to the handle that was cleared.
C16_Witness ==
    /\ last.op = "setGlobal"
    /\ pc = "run"
    /\ last.pre.resolves \in CountedVals
    /\ last.val # last.pre.resolves
    /\ nextWeakref = U32(last.pre.inScope)
    /\ nextWeakref < last.pre.next

\* Every rootScope entry is a weak-reference Value whose handle is live and
\* resolves to the Value last passed to setGlobal for its key, and no two
\* keys hold the same handle.
RootScopeBound(scope, tab, bound) ==
    /\ \A k \in Keys :
          scope[k] # NULL =>
              /\ scope[k] \in WIds
              /\ tab[U32(scope[k])] # NULL
              /\ tab[U32(scope[k])] = bound[k]
    /\ \A k1, k2 \in Keys :
          (k1 # k2 /\ scope[k1] # NULL) => scope[k1] # scope[k2]

\* C17 as stated: in every state reachable by setGlobal, removeGlobal,
\* setWeakref, makeWeakrefValue and clearWeakref every rootScope entry is a
\* weak-reference Value with a live handle that resolves to the Value last
\* passed to setGlobal for the key, and no two keys hold the same handle.
C17_RootScopeAlwaysBound ==
    pc = "run" => RootScopeBound(rootScope, weakrefs, boundVal)

\* The last operation cleared a handle that a rootScope entry holds.
ClearsRootHandle ==
    /\ last'.op = "clearWeakref"
    /\ \E k \in Keys : rootScope[k] = WeakrefValue(last'.val)

\* C17, amended: the root-scope binding holds initially and every operation
\* that returns keeps it, except a clearWeakref of a handle that a rootScope
\* entry holds: it holds in every state reachable by setGlobal,
\* removeGlobal, setWeakref, makeWeakrefValue and clearWeakref as long as
\* clearWeakref is not called on the handle of a rootScope entry.
C17_RootScopeBinding ==
    [][(/\ RootScopeBound(rootScope, weakrefs, boundVal)
        /\ pc' = "run"
        /\ ~ClearsRootHandle)
          => RootScopeBound(rootScope', weakrefs', boundVal')]_vars

\* Both keys are bound, the counter has wrapped around past the handle of
\* the other key, and the binding holds.
C17_Witness ==
    /\ last.op = "setGlobal"
    /\ pc = "run"
    /\ \A k \in Keys : rootScope[k] # NULL
    /\ last.pre.inScope # NULL
    /\ U32(rootScope[last.key]) < U32(last.pre.inScope)
    /\ RootScopeBound(rootScope, weakrefs, boundVal)

\* C18: a setGlobal(ctx, k, v) of a live Value v never destroys v, also when
\* v is bound to k already and the entry of k holds v's only reference: v is
\* not referenced after being destroyed, and when setGlobal returns v is
\* live and rootScope[k] resolves to v.
C18_SetGlobalKeepsValue ==
    [][(/\ last'.op = "setGlobal"
        /\ last'.val \in CountedVals
        /\ dtor[last'.val] = 0 /\ refs[last'.val] > 0)
          => /\ dtor'[last'.val] = 0
             /\ ~flags'.uaf
             /\ pc' # "crashed"
             /\ pc' = "run" =>
                   /\ refs'[last'.val] > 0
                   /\ Resolves(Ctx', last'.key) = last'.val]_vars

\* C19: after any sequence of registerEngine, setGlobal and removeGlobal the
\* binding of every registered engine for every key is the registry's: the
\* weak-reference Value of rootScope for a key that is present, absent for
\* one that is not; an engine registered after setGlobal(ctx, k, v) is bound
\* to the weak-reference Value of k.
C19_EnginesFollowRootScope ==
    pc = "run" =>
        \A n \in Registered(Ctx), k \in Keys :
            ectx[engines[n]].globals[k] = rootScope[k]

\* C20: every setWeakref, and so every setGlobal and makeWeakrefValue,
\* finishes its skip-occupied loop and returns with the counter on an
\* unoccupied handle, the call that fills the last free handle included.
C20_HandleDiscoveryTerminates ==
    /\ pc # "hung"
    /\ (pc = "run" /\ last.op \in {"setWeakref", "makeWeakref", "setGlobal"})
          => weakrefs[nextWeakref] = NULL

====
